---- MODULE Spec2Model ----
(***************************************************************************)
(* Model of crates/quickjs-wasm/src/context.rs: the two script-callable    *)
(* bridges registered by set_quickjs_globals.                              *)
(*                                                                         *)
(*   console_log_to(stream)  the logging callback (console.log/.error)    *)
(*   fetch_callback()        the network callback, which calls the host    *)
(*                           import req of wasi_experimental_http          *)
(*                                                                         *)
(* Text is modelled as sequences of bytes (UTF-8), script values as        *)
(* records, and the ten u32 parameters of req as a tuple of numbers whose  *)
(* addresses are looked up in the memory of the invocation.                *)
(***************************************************************************)
EXTENDS Integers, Sequences, FiniteSets, TLC

(***************************************************************************)
(* Bounds of the model.                                                    *)
(***************************************************************************)
\* largest number of arguments of one call of the network callback
MaxFetchArgs == 5
\* largest number of arguments of one call of the logging callback
MaxLogArgs == 3

(***************************************************************************)
(* Script values (JSValueRef) and their textual form.                      *)
(***************************************************************************)
JsString(bytes) == [type |-> "string", num |-> 0, str |-> bytes]
JsNumber(n) == [type |-> "number", num |-> n, str |-> <<>>]
JsBool(b) == [type |-> "bool", num |-> IF b THEN 1 ELSE 0, str |-> <<>>]

\* the decimal digits (ASCII) of a natural number, as {} formats an integer
RECURSIVE Decimal(_)
Decimal(n) == IF n < 10 THEN <<48 + n>> ELSE Append(Decimal(n \div 10), 48 + (n % 10))

\* arg.to_string(): the textual form of a script value
to_string(v) ==
  CASE v.type = "string" -> v.str
    [] v.type = "number" -> Decimal(v.num)
    [] v.type = "bool" -> IF v.num = 1 THEN <<116, 114, 117, 101>>
                                       ELSE <<102, 97, 108, 115, 101>>

\* "a", the two-byte "e-acute" (one character, two bytes) and ""
StrA == JsString(<<97>>)
StrE == JsString(<<195, 169>>)
StrEmpty == JsString(<<>>)

\* the values the arguments of the network callback are drawn from
FetchValues == {StrA, StrE}
\* the values the arguments of the logging callback are drawn from
LogValues == {StrA, StrEmpty, JsNumber(1), JsBool(TRUE)}

\* the sequences over S of length lo..hi
SeqsOf(S, lo, hi) == UNION {[1..n -> S] : n \in lo..hi}

(***************************************************************************)
(* Results of a callback: Result<JSValue>.                                 *)
(***************************************************************************)
Ok(js, bytes) == [ok |-> TRUE, js |-> js, text |-> bytes, err |-> ""]
Err(msg) == [ok |-> FALSE, js |-> "none", text |-> <<>>, err |-> msg]
NoResult == [ok |-> FALSE, js |-> "none", text |-> <<>>, err |-> "pending"]

ArgumentError == "fetch requires at least four arguments"
HostCallError == "fetch failed"
WriteError == "io error"

(***************************************************************************)
(* State.                                                                  *)
(***************************************************************************)
VARIABLES
  \* ---- the network callback: the invocation in progress (or the last one)
  phase,            \* where the invocation is
  trace,            \* the phases the invocation has been through
  args,             \* its arguments
  url, method, body, headers,       \* the four Strings (bytes)
  status_code_ptr, res_handle_ptr,  \* the two MaybeUninit output cells
  reqCalls,         \* the calls of req made by the invocation
  reads,            \* the assume_init reads made by the invocation
  res,              \* what req returned (-1: nothing yet)
  host_wrote,       \* what the host stored through the output addresses
  result,           \* what the callback returned
  kept,             \* history: one earlier call of req, kept for comparison
  \* ---- the logging callback: the last invocation
  stream,           \* the stream the callback is bound to
  log_args,         \* its arguments
  writes,           \* the writes made on the stream by the invocation
  log_result        \* what the callback returned

fetchVars == <<phase, trace, args, url, method, body, headers, status_code_ptr,
               res_handle_ptr, reqCalls, reads, res, host_wrote, result, kept>>
logVars == <<stream, log_args, writes, log_result>>
vars == <<fetchVars, logVars>>


(***************************************************************************)
(* The logging callback, console_log_to(stream).                           *)
(***************************************************************************)
Streams == {"stdout", "stderr"}

\* a loop that pushes the separator before every argument, the first included
separator_always(i) == <<32>>

\* what the loop pushes before the i-th argument (i counts from 0)
separator(i) == IF i # 0 THEN <<32>> ELSE <<>>

\* the loop over args.iter().enumerate(), from index i with log_line so far
RECURSIVE build_log_line(_, _, _)
build_log_line(a, i, log_line) ==
  IF i >= Len(a) THEN log_line
  ELSE build_log_line(a, i + 1, log_line \o separator(i) \o to_string(a[i + 1]))

\* writeln!(stream, "{log_line}"): one call of the stream's write_fmt, with
\* the text it formats (log_line and a newline) and whether the stream
\* accepted it.  How the stream carries the call out is the stream's affair.
writeln(s, log_line, io_ok) ==
  << [stream |-> s, data |-> log_line \o <<10>>, ok |-> io_ok] >>

\* a closure that drops the outcome of the write
log_return_swallowed(w) == Ok("undefined", <<>>)

\* the value of the closure: the ? on the write, then Ok(JSValue::Undefined)
log_return(w) ==
  IF \E k \in 1..Len(w) : ~w[k].ok THEN Err(WriteError) ELSE Ok("undefined", <<>>)

\* one invocation of the callback bound to stream s, with arguments a, on a
\* stream that accepts the write (io_ok) or fails it
console_log_to(s, a, io_ok) ==
  LET w == writeln(s, build_log_line(a, 0, <<>>), io_ok) IN
  /\ stream' = s
  /\ log_args' = a
  /\ writes' = w
  /\ log_result' = log_return(w)
  /\ UNCHANGED fetchVars

(***************************************************************************)
(* The network callback, fetch_callback().                                 *)
(***************************************************************************)
\* a MaybeUninit cell: reserved and not yet valid, or holding a value
Uninit == [init |-> FALSE, val |-> 0]
Written(v) == [init |-> TRUE, val |-> v]

\* the addresses of the objects of one invocation (as_ptr, as_mut_ptr)
url_ptr == 1
method_ptr == 2
body_ptr == 3
headers_ptr == 4
status_code_addr == 5
res_handle_addr == 6

\* if args.len() < 4 { return Err(..) }
too_few_args(a) == Len(a) < 4

\* an argument check that reports nothing to the caller
argument_error_swallowed(a) == Ok("undefined", <<>>)

\* the error of the argument check
argument_error(a) == Err(ArgumentError)

\* Strings appended to what an earlier call left behind instead of made anew
arg_strings_leaky(a) ==
  [url |-> (IF kept.set /\ kept.later >= 1 THEN kept.call.url ELSE <<>>) \o to_string(a[1]),
   method |-> to_string(a[2]), body |-> to_string(a[3]), headers |-> to_string(a[4])]

\* the four Strings made from the arguments
arg_strings(a) ==
  [url |-> to_string(a[1]), method |-> to_string(a[2]),
   body |-> to_string(a[3]), headers |-> to_string(a[4])]

\* the parameters with body and headers in the order of the arguments
req_params_arg_order(u, m, b, h) ==
  <<url_ptr, Len(u), method_ptr, Len(m), body_ptr, Len(b), headers_ptr, Len(h),
    status_code_addr, res_handle_addr>>

\* the ten parameters of the call of req, from the four Strings
req_params(u, m, b, h) ==
  <<url_ptr, Len(u), method_ptr, Len(m), headers_ptr, Len(h), body_ptr, Len(b),
    status_code_addr, res_handle_addr>>

\* the memory of the invocation: the bytes of the String at an address
string_at(p) ==
  CASE p = url_ptr -> url
    [] p = method_ptr -> method
    [] p = body_ptr -> body
    [] p = headers_ptr -> headers
    [] OTHER -> <<>>

\* what the host finds behind an (address, length) pair
bytes_at(p, n) == SubSeq(string_at(p), 1, n)

\* what req is handed: its parameters and the bytes they refer to
req_call(p) ==
  [params |-> p,
   url |-> bytes_at(p[1], p[2]), method |-> bytes_at(p[3], p[4]),
   req_headers |-> bytes_at(p[5], p[6]), req_body |-> bytes_at(p[7], p[8])]

\* what the host can do with one call: return res, having written the two
\* output cells or not.  A host that returns 0 has written both.
Statuses == {0, 200, 65535}
Handles == {7, 2147483647}
HostOutcomes ==
  [res : {0}, wrote : {TRUE}, status : Statuses, handle : Handles]
  \cup [res : {1, 2147483647}, wrote : {FALSE}, status : {0}, handle : {0}]
  \cup [res : {1, 2147483647}, wrote : {TRUE}, status : {200}, handle : {7}]

\* the cell at address c after the host has stored through its parameters 9, 10
host_store(c, p, o, old) ==
  IF ~o.wrote THEN old
  ELSE IF p[9] = c THEN Written(o.status)
  ELSE IF p[10] = c THEN Written(o.handle)
  ELSE old

\* a callback that reads the cells before it looks at r
cell_reads_always(r) == <<"status_code_ptr", "res_handle_ptr">>

\* the cells the callback reads (assume_init) once req has returned r
cell_reads(r) == IF r # 0 THEN <<>> ELSE <<"status_code_ptr", "res_handle_ptr">>

\* a format with the handle truncated to the 16 bits of the status code
format_result_u16(status_code, res_handle) ==
  <<102, 101, 116, 99, 104, 32, 114, 101, 115, 117, 108, 116, 58, 32, 115, 116,
    97, 116, 117, 115, 32, 99, 111, 100, 101, 32>>
  \o Decimal(status_code)
  \o <<44, 32, 114, 101, 115, 112, 111, 110, 115, 101, 32, 104, 97, 110, 100,
       108, 101, 32>>
  \o Decimal(res_handle % 65536)

\* format!("fetch result: status code {}, response handle {}", ..)
format_result(status_code, res_handle) ==
  <<102, 101, 116, 99, 104, 32, 114, 101, 115, 117, 108, 116, 58, 32, 115, 116,
    97, 116, 117, 115, 32, 99, 111, 100, 101, 32>>
  \o Decimal(status_code)
  \o <<44, 32, 114, 101, 115, 112, 111, 110, 115, 101, 32, 104, 97, 110, 100,
       108, 101, 32>>
  \o Decimal(res_handle)

\* a callback that takes only the return code 1 for a failure
fetch_result_only_one(r, sc, rh) ==
  IF r = 1 THEN Err(HostCallError)
  ELSE Ok("string", format_result(sc.val, rh.val))

\* the value of the closure once req has returned r, the cells being sc and rh
fetch_result(r, sc, rh) ==
  IF r # 0 THEN Err(HostCallError)
  ELSE Ok("string", format_result(sc.val, rh.val))

\* a callback that calls req again when it has failed
after_return_retry(r) == IF r # 0 THEN "Serialized" ELSE "Succeeded"

\* where the invocation is once req has returned r
after_return(r) == IF r # 0 THEN "Failed" ELSE "Succeeded"

NoKept == [set |-> FALSE, args |-> <<>>, call |-> req_call(<<0, 0, 0, 0, 0, 0, 0, 0, 0, 0>>),
           res |-> -1, later |-> 0]

\* the callback is entered with arguments a and checks their number
fetch_invoke(a) ==
  /\ phase = "Idle"
  /\ args' = a
  /\ IF too_few_args(a)
       THEN /\ phase' = "Failed"
            /\ result' = argument_error(a)
       ELSE /\ phase' = "ArgsValidated"
            /\ result' = NoResult
  /\ trace' = <<"Idle", phase'>>
  /\ kept' = IF kept.set /\ kept.later < 2
               THEN [kept EXCEPT !.later = kept.later + 1] ELSE kept
  /\ UNCHANGED <<url, method, body, headers, status_code_ptr, res_handle_ptr,
                 reqCalls, reads, res, host_wrote, logVars>>

\* the arguments become Strings and the two output cells are reserved
fetch_serialize ==
  /\ phase = "ArgsValidated"
  /\ LET s == arg_strings(args) IN
       /\ url' = s.url /\ method' = s.method
       /\ body' = s.body /\ headers' = s.headers
  /\ status_code_ptr' = Uninit /\ res_handle_ptr' = Uninit
  /\ phase' = "Serialized"
  /\ trace' = Append(trace, "Serialized")
  /\ UNCHANGED <<args, reqCalls, reads, res, host_wrote, result, kept, logVars>>

\* req is called; the history may keep this call for later comparison
fetch_call_req ==
  /\ phase = "Serialized"
  /\ LET c == req_call(req_params(url, method, body, headers)) IN
       /\ reqCalls' = Append(reqCalls, c)
       /\ \/ kept' = kept
          \/ /\ ~kept.set
             /\ kept' = [set |-> TRUE, args |-> args, call |-> c, res |-> -1, later |-> 0]
  /\ phase' = "HostCallInFlight"
  /\ trace' = Append(trace, "HostCallInFlight")
  /\ UNCHANGED <<args, url, method, body, headers, status_code_ptr, res_handle_ptr,
                 reads, res, host_wrote, result, logVars>>

\* the host answers with outcome o, and the callback runs to its return
fetch_req_return(o) ==
  /\ phase = "HostCallInFlight"
  /\ LET p == reqCalls[Len(reqCalls)].params
         sc == host_store(status_code_addr, p, o, status_code_ptr)
         rh == host_store(res_handle_addr, p, o, res_handle_ptr)
         rd == cell_reads(o.res)
     IN
       /\ status_code_ptr' = sc
       /\ res_handle_ptr' = rh
       /\ reads' = reads \o [k \in 1..Len(rd) |->
                    [cell |-> rd[k], res |-> o.res,
                     init |-> IF rd[k] = "status_code_ptr" THEN sc.init ELSE rh.init]]
       /\ result' = fetch_result(o.res, sc, rh)
  /\ res' = o.res
  /\ host_wrote' = [wrote |-> o.wrote, status |-> o.status, handle |-> o.handle]
  /\ phase' = after_return(o.res)
  /\ trace' = Append(trace, phase')
  /\ kept' = IF kept.set /\ kept.later = 0 THEN [kept EXCEPT !.res = o.res] ELSE kept
  /\ UNCHANGED <<args, url, method, body, headers, reqCalls, logVars>>

\* the closure has returned: its Strings and cells are dropped, its result is
\* with the caller, and the callback can be called again
fetch_dropped ==
  /\ phase \in {"Succeeded", "Failed"}
  /\ phase' = "Idle"
  /\ trace' = <<"Idle">>
  /\ args' = <<>>
  /\ url' = <<>> /\ method' = <<>> /\ body' = <<>> /\ headers' = <<>>
  /\ status_code_ptr' = Uninit /\ res_handle_ptr' = Uninit
  /\ reqCalls' = <<>> /\ reads' = <<>> /\ res' = -1
  /\ host_wrote' = [wrote |-> FALSE, status |-> 0, handle |-> 0]
  /\ result' = NoResult
  /\ UNCHANGED <<kept, logVars>>

(***************************************************************************)
(* Specifications.                                                         *)
(***************************************************************************)
Init ==
  /\ phase = "Idle"
  /\ trace = <<"Idle">>
  /\ args = <<>>
  /\ url = <<>> /\ method = <<>> /\ body = <<>> /\ headers = <<>>
  /\ status_code_ptr = Uninit /\ res_handle_ptr = Uninit
  /\ reqCalls = <<>> /\ reads = <<>> /\ res = -1
  /\ host_wrote = [wrote |-> FALSE, status |-> 0, handle |-> 0]
  /\ result = NoResult
  /\ kept = NoKept
  /\ stream = "stdout"
  /\ log_args = <<>>
  /\ writes = <<>>
  /\ log_result = NoResult

NextFetch ==
  \/ \E a \in SeqsOf(FetchValues, 0, MaxFetchArgs) : fetch_invoke(a)
  \/ fetch_serialize
  \/ fetch_call_req
  \/ \E o \in HostOutcomes : fetch_req_return(o)
  \/ fetch_dropped

NextLog ==
  \E s \in Streams, a \in SeqsOf(LogValues, 0, MaxLogArgs), io_ok \in BOOLEAN :
    console_log_to(s, a, io_ok)

\* the network callback, called any number of times
SpecFetch == Init /\ [][NextFetch]_vars
\* the two logging callbacks, called any number of times
SpecLog == Init /\ [][NextLog]_vars

(***************************************************************************)
(* What the properties are stated with.                                    *)
(***************************************************************************)
\* texts joined by one space
RECURSIVE JoinSpace(_)
JoinSpace(texts) ==
  IF texts = <<>> THEN <<>>
  ELSE IF Len(texts) = 1 THEN texts[1]
  ELSE texts[1] \o <<32>> \o JoinSpace(Tail(texts))

\* the textual forms of a sequence of arguments
Texts(a) == [k \in 1..Len(a) |-> to_string(a[k])]

\* the number a sequence of decimal digits stands for
RECURSIVE ParseDecimal(_)
ParseDecimal(d) ==
  IF d = <<>> THEN 0
  ELSE ParseDecimal(SubSeq(d, 1, Len(d) - 1)) * 10 + (d[Len(d)] - 48)

IsDigits(d) == d # <<>> /\ \A k \in 1..Len(d) : d[k] \in 48..57

ResultPrefix ==
  <<102, 101, 116, 99, 104, 32, 114, 101, 115, 117, 108, 116, 58, 32, 115, 116,
    97, 116, 117, 115, 32, 99, 111, 100, 101, 32>>
ResultMiddle ==
  <<44, 32, 114, 101, 115, 112, 111, 110, 115, 101, 32, 104, 97, 110, 100, 108,
    101, 32>>

\* the places of the commas of a text
Commas(t) == {k \in 1..Len(t) : t[k] = 44}

\* a caller's reading of the success value: the text is the prefix, digits,
\* the middle and digits again
Decodable(t) ==
  /\ Cardinality(Commas(t)) = 1
  /\ LET c == CHOOSE k \in Commas(t) : TRUE IN
       /\ SubSeq(t, 1, Len(ResultPrefix)) = ResultPrefix
       /\ IsDigits(SubSeq(t, Len(ResultPrefix) + 1, c - 1))
       /\ SubSeq(t, c, c + Len(ResultMiddle) - 1) = ResultMiddle
       /\ IsDigits(SubSeq(t, c + Len(ResultMiddle), Len(t)))

\* the status code and the handle read back from the success value
Decode(t) ==
  LET c == CHOOSE k \in Commas(t) : TRUE IN
    <<ParseDecimal(SubSeq(t, Len(ResultPrefix) + 1, c - 1)),
      ParseDecimal(SubSeq(t, c + Len(ResultMiddle), Len(t)))>>

\* the bytes and lengths of URL, method, headers and body that a call hands over
PayloadOf(c) ==
  <<c.url, c.params[2], c.method, c.params[4],
    c.req_headers, c.params[6], c.req_body, c.params[8]>>

Terminal == {"Succeeded", "Failed"}
PathSucceeded == <<"Idle", "ArgsValidated", "Serialized", "HostCallInFlight", "Succeeded">>
PathFailed == <<"Idle", "ArgsValidated", "Serialized", "HostCallInFlight", "Failed">>
IsPrefix(p, q) == Len(p) <= Len(q) /\ SubSeq(q, 1, Len(p)) = p

(***************************************************************************)
(* The properties.                                                         *)
(***************************************************************************)

C8_UndefinedIffWriteSucceeded ==
  log_result # NoResult =>
    /\ (log_result = Ok("undefined", <<>>)) <=> (\A k \in 1..Len(writes) : writes[k].ok)
    /\ \A k \in 1..Len(writes) :
         ~writes[k].ok => /\ k = Len(writes)
                          /\ ~log_result.ok
                          /\ log_result = Err(WriteError)

\* a write has failed and the callback has returned the error
C8_Witness ==
  /\ Len(writes) = 1
  /\ ~writes[1].ok
  /\ Len(log_args) = 2
  /\ log_result = Err(WriteError)

\* C2: with fewer than four arguments the network callback returns the
\* argument error and req is not called.
C2_TooFewArgumentsNoHostCall ==
  (phase # "Idle" /\ Len(args) < 4) =>
    /\ phase = "Failed"
    /\ result = Err(ArgumentError)
    /\ reqCalls = <<>>
    /\ res = -1

\* an invocation with three arguments has failed without a call
C2_Witness ==
  /\ phase = "Failed"
  /\ Len(args) = 3
  /\ result = Err(ArgumentError)
  /\ reqCalls = <<>>

\* C3: with four or more arguments an invocation calls req exactly once,
\* whatever req returns: no call before the Strings are made, one from then
\* on, never a second; and two calls whose first four arguments agree hand
\* the host the same payload, whatever arguments follow the fourth.
C3_ExactlyOneHostCall ==
  /\ Len(reqCalls) <= 1
  /\ phase \in {"Idle", "ArgsValidated", "Serialized"} => reqCalls = <<>>
  /\ (Len(args) >= 4 /\ phase \in {"HostCallInFlight", "Succeeded", "Failed"})
       => Len(reqCalls) = 1
  /\ (kept.set /\ Len(reqCalls) = 1 /\ SubSeq(kept.args, 1, 4) = SubSeq(args, 1, 4))
       => PayloadOf(kept.call) = PayloadOf(reqCalls[1])

\* a failed invocation with five arguments has called req once, with the
\* payload of an earlier call that had the first four only
C3_Witness ==
  /\ phase = "Failed"
  /\ Len(args) = 5
  /\ res # 0
  /\ Len(reqCalls) = 1
  /\ kept.set /\ kept.later >= 1
  /\ Len(kept.args) = 4
  /\ SubSeq(args, 1, 4) = kept.args
  /\ PayloadOf(kept.call) = PayloadOf(reqCalls[1])

\* C4: when req returns a nonzero code the callback returns the generic
\* "fetch failed" error, and neither output cell is read or shows in the
\* result, whatever the host stored in them.
C4_NonzeroIsGenericError ==
  (res # -1 /\ res # 0) =>
    /\ phase = "Failed"
    /\ result = Err(HostCallError)
    /\ reads = <<>>

\* the host has stored 200 and 7 and returned a nonzero code other than 1
C4_Witness ==
  /\ res = 2147483647
  /\ host_wrote = [wrote |-> TRUE, status |-> 200, handle |-> 7]
  /\ status_code_ptr = Written(200)
  /\ res_handle_ptr = Written(7)
  /\ result = Err(HostCallError)
  /\ reads = <<>>

\* C5: when req returns zero the callback returns a string from which the
\* status code and the handle the host stored are read back unchanged.
C5_SuccessValueDecodes ==
  res = 0 =>
    /\ phase = "Succeeded"
    /\ result.ok
    /\ result.js = "string"
    /\ Decodable(result.text)
    /\ Decode(result.text) = <<host_wrote.status, host_wrote.handle>>

\* the host has stored 65535 and the largest handle of the model
C5_Witness ==
  /\ res = 0
  /\ host_wrote = [wrote |-> TRUE, status |-> 65535, handle |-> 2147483647]
  /\ result.ok
  /\ Decode(result.text) = <<65535, 2147483647>>

\* C6: a call of req made for the same arguments as an earlier call hands
\* the host the same bytes and lengths of URL, method, headers and body,
\* whatever the earlier call returned and whatever was called in between.
C6_SameArgumentsSamePayload ==
  (kept.set /\ kept.later >= 1 /\ Len(reqCalls) = 1 /\ kept.args = args)
    => PayloadOf(kept.call) = PayloadOf(reqCalls[1])

\* the earlier call failed, another invocation came in between, and the
\* call for the same arguments has been made
C6_Witness ==
  /\ kept.set
  /\ kept.later = 2
  /\ kept.res # 0
  /\ kept.args = args
  /\ Len(reqCalls) = 1
  /\ PayloadOf(kept.call) = PayloadOf(reqCalls[1])

\* C7: req receives the URL (argument 0) as parameters 1-2, the method
\* (argument 1) as 3-4, the headers (argument 3) as 5-6, the body (argument 2)
\* as 7-8, each length being the byte length of the argument's text, and the
\* addresses of the status cell and the handle cell as parameters 9 and 10.
C7_PositionalParameters ==
  \A k \in 1..Len(reqCalls) :
    LET c == reqCalls[k]
        p == c.params
    IN
      /\ c.url = to_string(args[1]) /\ p[2] = Len(to_string(args[1]))
      /\ c.method = to_string(args[2]) /\ p[4] = Len(to_string(args[2]))
      /\ c.req_headers = to_string(args[4]) /\ p[6] = Len(to_string(args[4]))
      /\ c.req_body = to_string(args[3]) /\ p[8] = Len(to_string(args[3]))
      /\ p[9] = status_code_addr
      /\ p[10] = res_handle_addr
      /\ host_wrote.wrote => /\ status_code_ptr = Written(host_wrote.status)
                             /\ res_handle_ptr = Written(host_wrote.handle)

\* a call whose body is "a" (1 byte) and whose headers are 2 bytes long
C7_Witness ==
  /\ Len(reqCalls) = 1
  /\ args[3] = StrA
  /\ args[4] = StrE
  /\ reqCalls[1].req_headers = <<195, 169>>
  /\ reqCalls[1].params[6] = 2
  /\ reqCalls[1].req_body = <<97>>
  /\ reqCalls[1].params[8] = 1
  /\ host_wrote.wrote

\* C9: the two cells are reserved and not valid until req has returned; a
\* cell is read only once req has returned zero, and is valid when read; no
\* cell is read before the call, during it, or after a nonzero return.
C9_CellsReadOnlyAfterSuccess ==
  /\ phase \in {"Idle", "ArgsValidated", "Serialized", "HostCallInFlight"} =>
       /\ ~status_code_ptr.init
       /\ ~res_handle_ptr.init
       /\ reads = <<>>
  /\ phase = "Failed" => reads = <<>>
  /\ \A k \in 1..Len(reads) :
       /\ reads[k].res = 0
       /\ reads[k].init
       /\ res = 0

\* both cells have been read, after a zero return
C9_Witness ==
  /\ phase = "Succeeded"
  /\ Len(reads) = 2
  /\ reads[1].cell = "status_code_ptr"
  /\ reads[2].cell = "res_handle_ptr"
  /\ reads[1].init /\ reads[2].init

\* what C10 has in common with its amended form: the invocation is where its
\* trace ends, and a result exists exactly in a terminal state, a string in
\* Succeeded and an error in Failed
TraceAndResult ==
  /\ phase = trace[Len(trace)]
  /\ phase \notin Terminal => result = NoResult
  /\ phase = "Succeeded" => result.ok /\ result.js = "string"
  /\ phase = "Failed" => ~result.ok /\ result # NoResult

\* C10, as claimed: every invocation goes through Idle, ArgsValidated,
\* Serialized, HostCallInFlight and then Succeeded or Failed, in this order,
\* skipping none and returning to none, and ends there.
C10_AsClaimed ==
  /\ TraceAndResult
  /\ IsPrefix(trace, PathSucceeded) \/ IsPrefix(trace, PathFailed)

\* C10, amended: an invocation with four or more arguments goes through Idle,
\* ArgsValidated, Serialized, HostCallInFlight and then Succeeded or Failed,
\* in this order; an invocation with fewer than four arguments goes from Idle
\* straight to Failed; no state follows a terminal one.
C10_Amended ==
  /\ TraceAndResult
  /\ \/ IsPrefix(trace, PathSucceeded)
     \/ IsPrefix(trace, PathFailed)
     \/ trace = <<"Idle", "Failed">> /\ Len(args) < 4
  /\ (phase # "Idle" /\ Len(args) < 4) => trace = <<"Idle", "Failed">>
  /\ (phase # "Idle" /\ Len(args) >= 4) => trace # <<"Idle", "Failed">>

\* an invocation has gone all the way to Failed
C10_Witness ==
  /\ trace = PathFailed
  /\ Len(args) >= 4
  /\ result = Err(HostCallError)

====
